---- MODULE Spec2Model ----
(***************************************************************************)
(* Inference session lifecycle and frame scheduler of the LiteRT.js webcam *)
(* demo: main.js (start / stop / restart / visibility / benchmark /        *)
(* comparison handlers and the loop tick), webcam.js (setupWebcam),        *)
(* runtime.js (ensureLiteRtOnce) and the init() methods of Classifier,     *)
(* SegmenterSelfie and SegmenterSelfieMulticlass.                          *)
(*                                                                         *)
(* Every await of the source is a point where the handler is suspended; an *)
(* action runs one handler from one await to the next (JavaScript          *)
(* run-to-completion).  External outcomes (getUserMedia, fetch, compile,   *)
(* inference) are chosen nondeterministically.                             *)
(***************************************************************************)
EXTENDS Integers, FiniteSets, Sequences, TLC

\* ---------------------------------------------------------------- bounds
MaxStarts == 2      \* start handlers that pass the double-start guard
MaxAux == 1         \* benchmark / comparison clicks
MaxCalls == 2       \* run() calls that may be unresolved together
MaxClicks == 3      \* user events (clicks, selections, visibility changes)
MaxTicks == 3       \* frame callbacks that fire (frame scheduler)
LifeTicks == 1      \* frame callbacks that fire (lifecycle)
MaxTime == 400      \* performance.now() is followed up to here (ms)
TimeStep == 200     \* granularity of the clock (ms)
PerfMaxTime == 1200 \* performance.now() is followed up to here (perf display)
PerfStep == 600     \* granularity of the clock (perf display)
NumClasses == 2     \* classes of the model output (Classifier.run)
MaxProb == 2        \* finite probability levels 0 .. MaxProb (Classifier.run)
SegSide == 2        \* side S of the segmenter's model grid (stands for inputSize)
VidSide == 3        \* video width and height range over 0 .. VidSide

\* ------------------------------------------------------ program constants
CLASSIFY_INTERVAL_MS == 200
PERF_UPDATE_MS == 500

NULL == 0
NaN == -1           \* a non-finite entry of the probability output

Tasks == {"classification", "selfie", "selfie-mc"}
Accels == {"webgpu", "wasm"}
SegIntervals == {0, 300}

StartIds == 1..MaxStarts
AuxSessIds == {MaxStarts + 1, MaxStarts + 2}
SessIds == StartIds \cup AuxSessIds
StreamIds == 1..(MaxStarts + MaxAux)
Handles == 1..MaxStarts
CallIds == 1..MaxCalls

VARIABLES
  hasGpu, hasRVFC,
  taskSelect, backendSelect, segInterval,
  startDisabled, stopDisabled, selDisabled,
  status, compareStatus, docHidden,
  running, rafId, runner, perfText, canvas, srcObject, tracks, pending,
  classifyInFlight, lastClassifyTs, lastSegTs, fpsEMA, lastPerfUpdate,
  calls, now,
  g, loadCalls, tfBackend, sess,
  starts, nextStart, restart, aux, auxCount,
  cls,
  perfWrites,
  ev, clicks, ticks

hostVars == <<hasGpu, hasRVFC>>
selVars == <<taskSelect, backendSelect, segInterval>>
btnVars == <<startDisabled, stopDisabled, selDisabled>>
ctlVars == <<running, rafId, runner, perfText, canvas, srcObject, tracks, pending>>
schedVars == <<classifyInFlight, lastClassifyTs, lastSegTs, fpsEMA, lastPerfUpdate>>
rtVars == <<g, loadCalls, tfBackend>>
procVars == <<starts, nextStart, restart, aux, auxCount>>

pageVars == <<hostVars, selVars, btnVars, status, compareStatus, docHidden,
              ctlVars, schedVars, calls, now, rtVars, sess, procVars>>

vars == <<pageVars, cls, perfWrites, ev, clicks, ticks>>

\* an event of the page: its name, and the user events and frame callbacks it
\* uses up; the stand-alone Classifier.run() call is not part of the page, and
\* only the completion of a run() call (CallSettle) updates the perf text
Event(name, dc, dt) ==
  /\ ev' = name
  /\ clicks' = clicks + dc
  /\ ticks' = ticks + dt
  /\ UNCHANGED <<cls, perfWrites>>

\* ------------------------------------------------------------- sessions
NoSess == [kind |-> "none", requested |-> "none", accelerator |-> "none",
           model |-> "null", warmedUp |-> FALSE, backendName |-> "",
           pc |-> "none", err |-> "", compiles |-> <<>>, warmups |-> 0]

\* constructor of Classifier / SegmenterSelfie / SegmenterSelfieMulticlass
NewSession(task, accelerator) ==
  [NoSess EXCEPT !.kind = task, !.requested = accelerator,
                 !.accelerator = accelerator, !.pc = "new"]

SessionType(s) == IF s.kind = "classification" THEN "classifier" ELSE "segmenter"

ToUpperCase(a) == IF a = "webgpu" THEN "WEBGPU" ELSE IF a = "wasm" THEN "WASM" ELSE ""

\* Messages loadAndCompile may reject with, and the alternatives of the two
\* isGpuCompileFailure regular expressions each of them contains.
CompileMsgs == {"unresolved custom op Convolution2DTransposeBias",
                "Tensor does not have a buffer handle",
                "invalid buffer handle",
                "out of memory"}

Alternatives(msg) ==
  CASE msg = "unresolved custom op Convolution2DTransposeBias" ->
         {"custom op", "unresolved custom op", "Convolution2DTransposeBias"}
    [] msg = "Tensor does not have a buffer handle" ->
         {"does not have a buffer handle", "buffer handle"}
    [] msg = "invalid buffer handle" -> {"buffer handle"}
    [] OTHER -> {}

isGpuCompileFailure(kind, msg) ==
  IF kind = "selfie"
  THEN Alternatives(msg) \cap {"custom op", "Convolution2DTransposeBias",
         "unresolved custom op", "does not have a buffer handle", "buffer handle"} # {}
  ELSE Alternatives(msg) \cap {"custom op", "unresolved custom op",
         "does not have a buffer handle", "Convolution2DTransposeBias"} # {}


\* --------------------------------------------------------- stopEverything
\* The part of the page state stopEverything() reads and writes.
Ctl == [running |-> running, rafId |-> rafId, pending |-> pending,
        srcObject |-> srcObject, tracks |-> tracks, canvas |-> canvas,
        perfText |-> perfText, runner |-> runner]

\* stream.getTracks().forEach(t => t.stop())
StopTracks(tr, stream) ==
  IF stream # NULL THEN [tr EXCEPT ![stream] = "stopped"] ELSE tr

\* variants of stopEverything: one that flips the running flag instead of
\* clearing it, one that keeps the runner
stopEverything_flip(c) ==
  [running |-> ~c.running,
   rafId |-> NULL,
   pending |-> IF c.rafId # NULL THEN c.pending \ {c.rafId} ELSE c.pending,
   srcObject |-> NULL,
   tracks |-> StopTracks(c.tracks, c.srcObject),
   canvas |-> "clear",
   perfText |-> "unknown",
   runner |-> NULL]

stopEverything_keepRunner(c) ==
  [running |-> FALSE,
   rafId |-> NULL,
   pending |-> IF c.rafId # NULL THEN c.pending \ {c.rafId} ELSE c.pending,
   srcObject |-> NULL,
   tracks |-> StopTracks(c.tracks, c.srcObject),
   canvas |-> "clear",
   perfText |-> "unknown",
   runner |-> c.runner]

stopEverything(c) ==
  [running |-> FALSE,
   rafId |-> NULL,
   pending |-> IF c.rafId # NULL THEN c.pending \ {c.rafId} ELSE c.pending,
   srcObject |-> NULL,
   tracks |-> StopTracks(c.tracks, c.srcObject),
   canvas |-> "clear",
   perfText |-> "unknown",
   runner |-> NULL]

SetCtl(c) ==
  /\ running' = c.running
  /\ rafId' = c.rafId
  /\ pending' = c.pending
  /\ srcObject' = c.srcObject
  /\ tracks' = c.tracks
  /\ canvas' = c.canvas
  /\ perfText' = c.perfText
  /\ runner' = c.runner

\* ------------------------------------------------------------ scheduling
NewHandle(p) == CHOOSE h \in Handles \ p : \A k \in Handles \ p : h <= k

\* "requestVideoFrameCallback" in HTMLVideoElement.prototype
\*   ? els.video.requestVideoFrameCallback(loop) : rafId = requestAnimationFrame(loop)
ArmPending(p) == p \cup {NewHandle(p)}
ArmRafId(p, raf) == IF hasRVFC THEN raf ELSE NewHandle(p)

NoCall == [sess |-> NULL, ts |-> 0, neutral |-> FALSE]
FreeCalls == {c \in CallIds : calls[c].sess = NULL}
NewCall == CHOOSE c \in FreeCalls : \A k \in FreeCalls : c <= k

Max(a, b) == IF a >= b THEN a ELSE b

\* --------------------------------------------------------------- runtime
\* ensureLiteRtOnce up to its await: the memo record afterwards and the
\* number of loadLiteRt calls made.
\* variant of ensureLiteRtOnce without the `if (!g.p)` memo check
ensureLiteRtOnce_noMemo(gv) ==
  IF gv.ok THEN [g |-> gv, loads |-> 0]
  ELSE [g |-> [gv EXCEPT !.p = "loading"], loads |-> 1]

\* variant that loads again after a failed load
ensureLiteRtOnce_retry(gv) ==
  IF gv.ok THEN [g |-> gv, loads |-> 0]
  ELSE IF gv.p \in {"null", "rejected"}
       THEN [g |-> [gv EXCEPT !.p = "loading"], loads |-> 1]
  ELSE [g |-> gv, loads |-> 0]

ensureLiteRtOnce(gv) ==
  IF gv.ok THEN [g |-> gv, loads |-> 0]
  ELSE IF gv.p = "null" THEN [g |-> [gv EXCEPT !.p = "loading"], loads |-> 1]
  ELSE [g |-> gv, loads |-> 0]

\* loadLiteRt(wasmPath) settles; .catch turns "already loading|already loaded"
\* into a fulfilment.
LoadSettle ==
  /\ g.p = "loading"
  /\ \E outcome \in {"ok", "already loaded", "fatal"} :
       g' = [g EXCEPT !.p = IF outcome = "fatal" THEN "rejected" ELSE "detecting"]
  /\ Event("step", 0, 0)
  /\ UNCHANGED <<hostVars, selVars, btnVars, status, compareStatus, docHidden,
                 ctlVars, schedVars, calls, now, loadCalls, tfBackend, sess, procVars>>

\* .then(async () => { await Promise.all([simd(), threads()]); g.ok = true; })
LoadDetected ==
  /\ g.p = "detecting"
  /\ g' = [p |-> "fulfilled", ok |-> TRUE]
  /\ Event("step", 0, 0)
  /\ UNCHANGED <<hostVars, selVars, btnVars, status, compareStatus, docHidden,
                 ctlVars, schedVars, calls, now, loadCalls, tfBackend, sess, procVars>>

\* ------------------------------------------------------------ init()
\* init() from its call to its first await (tf.setBackend).
InitSync(s, gpu) ==
  IF s.kind = "classification"
  THEN IF s.accelerator = "webgpu" /\ ~gpu
       THEN [s EXCEPT !.pc = "rejected", !.err = "WebGPU not supported in this browser."]
       ELSE [s EXCEPT !.pc = "tfReady"]
  ELSE IF s.accelerator = "webgpu" /\ gpu
       THEN [s EXCEPT !.pc = "tfReady"]
       ELSE [s EXCEPT !.accelerator = "wasm", !.pc = "tfReady"]

\* the backend tf.setBackend is called with in that part
InitSyncBackend(s, gpu, tf) ==
  IF s.kind = "classification"
  THEN IF s.accelerator = "webgpu" THEN (IF gpu THEN "webgpu" ELSE tf) ELSE "wasm"
  ELSE IF s.accelerator = "webgpu" /\ gpu THEN "webgpu" ELSE "cpu"

\* variant of the end of init() that never runs the warm-up inference
WarmupAndFinish_skip(s, warmOk) ==
  [s EXCEPT !.backendName = ToUpperCase(s.accelerator), !.pc = "resolved"]

\* the warm-up inference and the end of init()
WarmupAndFinish(s, warmOk) ==
  IF ~s.warmedUp
  THEN IF warmOk
       THEN [s EXCEPT !.warmedUp = TRUE, !.warmups = @ + 1,
                      !.backendName = ToUpperCase(s.accelerator), !.pc = "resolved"]
       ELSE [s EXCEPT !.warmups = @ + 1, !.pc = "rejected", !.err = "warm-up failed"]
  ELSE [s EXCEPT !.backendName = ToUpperCase(s.accelerator), !.pc = "resolved"]

\* after this.model = await loadAndCompile(...)
AfterCompile(s, warmOk) ==
  IF s.kind = "selfie-mc" THEN [s EXCEPT !.pc = "optAssets"]
  ELSE WarmupAndFinish(s, warmOk)

\* variant of the catch block that retries on WASM whatever accelerator the
\* failed compile used
CompileCatch_anyAccel(s, msg) ==
  IF isGpuCompileFailure(s.kind, msg)
  THEN [s EXCEPT !.accelerator = "wasm", !.pc = "fbReady"]
  ELSE [s EXCEPT !.pc = "rejected", !.err = msg]

\* catch (e) of the segmenters' compile try block
CompileCatch(s, msg) ==
  IF s.accelerator = "webgpu" /\ isGpuCompileFailure(s.kind, msg)
  THEN [s EXCEPT !.accelerator = "wasm", !.pc = "fbReady"]
  ELSE [s EXCEPT !.pc = "rejected", !.err = msg]

\* a failed loadAndCompile
CompileFailed(s, msg) ==
  IF s.kind = "classification"
  THEN [s EXCEPT !.pc = "rejected", !.err = msg]
  ELSE CompileCatch(s, msg)

\* after await ensureLiteRtOnce: the device check and the next await
AfterEnsure(s, tf) ==
  IF s.kind = "classification"
  THEN IF s.accelerator = "webgpu" /\ tf # "webgpu"
       THEN [s EXCEPT !.pc = "rejected", !.err = "Failed to access TFJS WebGPU device."]
       ELSE [s EXCEPT !.pc = "assertAsset"]
  ELSE IF s.accelerator = "webgpu" /\ tf # "webgpu"
       THEN CompileCatch(s, "No TFJS WebGPU device")
       ELSE [s EXCEPT !.pc = "compile", !.compiles = Append(@, s.accelerator)]

SessUnchanged ==
  UNCHANGED <<hostVars, selVars, btnVars, status, compareStatus, docHidden,
              ctlVars, schedVars, calls, now, procVars>>

\* await tf.setBackend(..); await tf.ready(); then ensureLiteRtOnce is called
SessTfReady(i) ==
  /\ sess[i].pc = "tfReady"
  /\ LET e == ensureLiteRtOnce(g) IN
       /\ g' = e.g
       /\ loadCalls' = loadCalls + e.loads
  /\ sess' = [sess EXCEPT ![i].pc = "ensure"]
  /\ Event("step", 0, 0)
  /\ UNCHANGED tfBackend
  /\ SessUnchanged

\* await ensureLiteRtOnce(this.wasmPath) settles
SessEnsureDone(i) ==
  /\ sess[i].pc = "ensure"
  /\ \/ /\ g.p = "fulfilled"
        /\ sess' = [sess EXCEPT ![i] = AfterEnsure(sess[i], tfBackend)]
     \/ /\ g.p = "rejected"
        /\ sess' = [sess EXCEPT ![i].pc = "rejected", ![i].err = "LiteRT load failed"]
  /\ Event("step", 0, 0)
  /\ UNCHANGED rtVars
  /\ SessUnchanged

\* await assertAsset(this.modelUrl)
SessAssertAsset(i) ==
  /\ sess[i].pc = "assertAsset"
  /\ \E outcome \in {"ok", "http", "html"} :
       sess' = [sess EXCEPT ![i] =
         CASE outcome = "ok" -> [@ EXCEPT !.pc = "labels"]
           [] outcome = "http" ->
                [@ EXCEPT !.pc = "rejected", !.err = "Asset not found or not served"]
           [] OTHER -> [@ EXCEPT !.pc = "rejected", !.err = "Unexpected HTML"]]
  /\ Event("step", 0, 0)
  /\ UNCHANGED rtVars
  /\ SessUnchanged

\* the labels fetch; then loadAndCompile is called
SessLabels(i) ==
  /\ sess[i].pc = "labels"
  /\ \E ok \in BOOLEAN :
       sess' = [sess EXCEPT ![i] =
         IF ok THEN [@ EXCEPT !.pc = "compile", !.compiles = Append(@, sess[i].accelerator)]
         ELSE [@ EXCEPT !.pc = "rejected", !.err = "Labels file missing"]]
  /\ Event("step", 0, 0)
  /\ UNCHANGED rtVars
  /\ SessUnchanged

\* await loadAndCompile(this.modelUrl, { accelerator }) settles
SessCompile(i) ==
  /\ sess[i].pc = "compile"
  /\ \/ /\ \E warmOk \in BOOLEAN :
             sess' = [sess EXCEPT ![i] =
               AfterCompile([@ EXCEPT !.model = sess[i].accelerator], warmOk)]
        /\ UNCHANGED tfBackend
     \/ /\ \E msg \in CompileMsgs :
             /\ sess' = [sess EXCEPT ![i] = CompileFailed(@, msg)]
             /\ tfBackend' = IF sess'[i].pc = "fbReady" THEN "cpu" ELSE tfBackend
  /\ Event("step", 0, 0)
  /\ UNCHANGED <<g, loadCalls>>
  /\ SessUnchanged

\* fallback: await tf.setBackend('cpu'); await tf.ready(); loadAndCompile on wasm
SessFbReady(i) ==
  /\ sess[i].pc = "fbReady"
  /\ sess' = [sess EXCEPT ![i].pc = "fbCompile", ![i].compiles = Append(@, "wasm")]
  /\ Event("step", 0, 0)
  /\ UNCHANGED rtVars
  /\ SessUnchanged

\* the fallback loadAndCompile settles
SessFbCompile(i) ==
  /\ sess[i].pc = "fbCompile"
  /\ \/ \E warmOk \in BOOLEAN :
          sess' = [sess EXCEPT ![i] = AfterCompile([@ EXCEPT !.model = "wasm"], warmOk)]
     \/ \E msg \in CompileMsgs :
          sess' = [sess EXCEPT ![i].pc = "rejected", ![i].err = msg]
  /\ Event("step", 0, 0)
  /\ UNCHANGED rtVars
  /\ SessUnchanged

\* the optional palette and label fetches of the multiclass segmenter
SessOptAssets(i) ==
  /\ sess[i].pc = "optAssets"
  /\ \E warmOk \in BOOLEAN :
       sess' = [sess EXCEPT ![i] = WarmupAndFinish(@, warmOk)]
  /\ Event("step", 0, 0)
  /\ UNCHANGED rtVars
  /\ SessUnchanged


\* A session whose init() promise has been consumed by its caller: the record
\* of how init() went (the error, the compile and warm-up history) is dropped.
Settled(s) == [s EXCEPT !.err = "", !.compiles = <<>>, !.warmups = 0]

\* ------------------------------------------------------- start handler
NoStart == [pc |-> "none", task |-> "", backend |-> "",
            priorRunner |-> NULL, priorStream |-> NULL]

Starting == \E h \in StartIds : starts[h].pc \in {"getUserMedia", "play", "import", "init"}
Idle == ~running /\ ~Starting

\* The click handler of startBtn up to its first await (setupWebcam), entered
\* with startBtn.disabled = sd.  priorRunner / priorStream record what a
\* restart tore down just before issuing the click.
StartHandler(sd, pr, ps) ==
  IF running
  THEN /\ startDisabled' = sd
       /\ UNCHANGED <<selDisabled, status, starts, nextStart>>
  ELSE /\ startDisabled' = TRUE
       /\ selDisabled' = TRUE
       /\ status' = "initializing"
       /\ nextStart' = nextStart + 1
       /\ starts' = [starts EXCEPT ![nextStart + 1] =
                       [NoStart EXCEPT !.pc = "getUserMedia",
                                       !.priorRunner = pr, !.priorStream = ps]]

\* what the catch block of the start handler does to the controller state
startCatch(c) == [c EXCEPT !.perfText = "unknown"]

\* catch (err) { ... } of the start handler h
StartCatch(h, msg) ==
  /\ status' = msg
  /\ SetCtl(startCatch(Ctl))
  /\ stopDisabled' = TRUE
  /\ startDisabled' = FALSE
  /\ selDisabled' = FALSE
  /\ starts' = [starts EXCEPT ![h] = [NoStart EXCEPT !.pc = "done"]]
  /\ sess' = [sess EXCEPT ![h] = Settled(@)]
  /\ Event("startFail", 0, 0)
  /\ UNCHANGED <<hostVars, selVars, compareStatus, docHidden, schedVars, calls, now,
                 rtVars, nextStart, restart, aux, auxCount>>

\* a user click on the start button (a disabled button dispatches no click)
StartClick ==
  /\ ~startDisabled
  /\ ~docHidden
  /\ running \/ nextStart < MaxStarts
  /\ StartHandler(startDisabled, NULL, NULL)
  /\ Event(IF running THEN "startRejected" ELSE "startBegin", 1, 0)
  /\ UNCHANGED <<hostVars, selVars, stopDisabled, compareStatus, docHidden, ctlVars,
                 schedVars, calls, now, rtVars, sess, restart, aux, auxCount>>

\* setupWebcam: await navigator.mediaDevices.getUserMedia(...); videoEl.srcObject = stream
StartGum(h) ==
  /\ starts[h].pc = "getUserMedia"
  /\ \/ /\ tracks' = [tracks EXCEPT ![h] = "live"]
        /\ srcObject' = h
        /\ starts' = [starts EXCEPT ![h].pc = "play"]
        /\ Event("step", 0, 0)
        /\ UNCHANGED <<hostVars, selVars, btnVars, status, compareStatus, docHidden,
                       running, rafId, runner, perfText, canvas, pending, schedVars,
                       calls, now, rtVars, sess, nextStart, restart, aux, auxCount>>
     \/ StartCatch(h, "getUserMedia failed")

\* the runner the start handler builds, and init() called on it
StartRunner(h, task, backend) ==
  /\ runner' = h
  /\ sess' = [sess EXCEPT ![h] = InitSync(NewSession(task, backend), hasGpu)]
  /\ tfBackend' = InitSyncBackend(NewSession(task, backend), hasGpu, tfBackend)

\* setupWebcam: await videoEl.play() and the loadeddata promise; then the
\* handler reads the selectors and builds the runner (classification) or
\* awaits the dynamic import of the segmenter module
StartPlay(h) ==
  /\ starts[h].pc = "play"
  /\ \/ /\ taskSelect = "classification"
        /\ StartRunner(h, taskSelect, backendSelect)
        /\ starts' = [starts EXCEPT ![h].pc = "init"]
        /\ Event("initCall", 0, 0)
        /\ UNCHANGED <<hostVars, selVars, btnVars, status, compareStatus, docHidden,
                       running, rafId, perfText, canvas, srcObject, tracks, pending,
                       schedVars, calls, now, g, loadCalls, nextStart, restart, aux,
                       auxCount>>
     \/ /\ taskSelect # "classification"
        /\ starts' = [starts EXCEPT ![h].pc = "import", ![h].task = taskSelect,
                                    ![h].backend = backendSelect]
        /\ Event("step", 0, 0)
        /\ UNCHANGED <<hostVars, selVars, btnVars, status, compareStatus, docHidden,
                       ctlVars, schedVars, calls, now, rtVars, sess, nextStart, restart,
                       aux, auxCount>>
     \/ StartCatch(h, "play failed")

\* await import('./segmenter_selfie*.js'); runner = new Segmenter...; runner.init()
StartImport(h) ==
  /\ starts[h].pc = "import"
  /\ \/ /\ StartRunner(h, starts[h].task, starts[h].backend)
        /\ starts' = [starts EXCEPT ![h].pc = "init"]
        /\ Event("initCall", 0, 0)
        /\ UNCHANGED <<hostVars, selVars, btnVars, status, compareStatus, docHidden,
                       running, rafId, perfText, canvas, srcObject, tracks, pending,
                       schedVars, calls, now, g, loadCalls, nextStart, restart, aux,
                       auxCount>>
     \/ StartCatch(h, "import failed")

\* await runner.init() settles; the rest of the try block, or the catch block
StartInitSettled(h) ==
  /\ starts[h].pc = "init"
  /\ \/ /\ sess[h].pc = "resolved"
        /\ runner # NULL
        /\ status' = "ready"
        /\ fpsEMA' = 0
        /\ lastPerfUpdate' = 0
        /\ lastSegTs' = 0
        /\ perfText' = "unknown"
        /\ stopDisabled' = FALSE
        /\ startDisabled' = TRUE
        /\ classifyInFlight' = FALSE
        /\ lastClassifyTs' = 0
        /\ running' = TRUE
        /\ pending' = ArmPending(pending)
        /\ rafId' = ArmRafId(pending, rafId)
        /\ starts' = [starts EXCEPT ![h] = [NoStart EXCEPT !.pc = "done"]]
        /\ sess' = [sess EXCEPT ![h] = Settled(@)]
        /\ Event("startOk", 0, 0)
        /\ UNCHANGED <<hostVars, selVars, selDisabled, compareStatus, docHidden, runner,
                       canvas, srcObject, tracks, calls, now, rtVars, nextStart,
                       restart, aux, auxCount>>
     \/ /\ sess[h].pc = "resolved"
        /\ runner = NULL
        /\ StartCatch(h, "TypeError: runner is null")
     \/ /\ sess[h].pc = "rejected"
        /\ StartCatch(h, sess[h].err)

\* ------------------------------------------------ stop, restart, visibility
\* stopBtn click handler
StopClick ==
  /\ ~stopDisabled
  /\ ~docHidden
  /\ SetCtl(stopEverything(Ctl))
  /\ status' = "stopped"
  /\ stopDisabled' = TRUE
  /\ startDisabled' = FALSE
  /\ selDisabled' = FALSE
  /\ Event("stop", 1, 0)
  /\ UNCHANGED <<hostVars, selVars, compareStatus, docHidden, schedVars, calls, now,
                 rtVars, sess, procVars>>

\* visibilitychange handler
VisibilityChange ==
  /\ docHidden' = ~docHidden
  /\ \/ /\ docHidden' /\ running
        /\ SetCtl(stopEverything(Ctl))
        /\ status' = "paused (tab hidden)"
        /\ stopDisabled' = TRUE
        /\ startDisabled' = FALSE
        /\ selDisabled' = FALSE
        /\ Event("stop", 1, 0)
     \/ /\ ~(docHidden' /\ running)
        /\ Event("step", 1, 0)
        /\ UNCHANGED <<ctlVars, status, btnVars>>
  /\ UNCHANGED <<hostVars, selVars, compareStatus, schedVars, calls, now, rtVars, sess,
                 procVars>>

NoRestart == [pc |-> "none", oldRunner |-> NULL, oldStream |-> NULL]

\* toggleBackendBtn click handler and restartWithCurrentSettings up to its
\* await (running) or to its end (not running)
ToggleClick ==
  /\ ~docHidden
  /\ restart.pc = "none"
  /\ backendSelect' = IF backendSelect = "webgpu" THEN "wasm" ELSE "webgpu"
  /\ \/ /\ running
        /\ SetCtl(stopEverything(Ctl))
        /\ restart' = [pc |-> "yield", oldRunner |-> runner, oldStream |-> srcObject]
        /\ Event("stop", 1, 0)
        /\ UNCHANGED <<btnVars, status, starts, nextStart>>
     \/ /\ ~running
        /\ nextStart < MaxStarts
        /\ stopDisabled' = TRUE
        /\ StartHandler(FALSE, NULL, NULL)
        /\ Event("toggleStart", 1, 0)
        /\ UNCHANGED <<ctlVars, restart>>
  /\ UNCHANGED <<hostVars, taskSelect, segInterval, compareStatus, docHidden, schedVars,
                 calls, now, rtVars, sess, aux, auxCount>>

\* restartWithCurrentSettings after await new Promise(r => setTimeout(r, 0))
RestartResume ==
  /\ restart.pc = "yield"
  /\ running \/ nextStart < MaxStarts
  /\ stopDisabled' = TRUE
  /\ StartHandler(FALSE, restart.oldRunner, restart.oldStream)
  /\ restart' = NoRestart
  /\ Event(IF running THEN "startRejected" ELSE "restartStart", 0, 0)
  /\ UNCHANGED <<hostVars, selVars, compareStatus, docHidden, ctlVars, schedVars, calls,
                 now, rtVars, sess, aux, auxCount>>

\* the user moves a selector or the segmentation interval slider
SelectTask ==
  /\ ~selDisabled /\ ~docHidden
  /\ \E t \in Tasks \ {taskSelect} : taskSelect' = t
  /\ Event("step", 1, 0)
  /\ UNCHANGED <<hostVars, backendSelect, segInterval, btnVars, status, compareStatus,
                 docHidden, ctlVars, schedVars, calls, now, rtVars, sess, procVars>>

SelectBackend ==
  /\ ~selDisabled /\ ~docHidden
  /\ \E b \in Accels \ {backendSelect} : backendSelect' = b
  /\ Event("step", 1, 0)
  /\ UNCHANGED <<hostVars, taskSelect, segInterval, btnVars, status, compareStatus,
                 docHidden, ctlVars, schedVars, calls, now, rtVars, sess, procVars>>

SegIntervalInput ==
  /\ ~docHidden
  /\ \E v \in SegIntervals \ {segInterval} : segInterval' = v
  /\ Event("step", 1, 0)
  /\ UNCHANGED <<hostVars, taskSelect, backendSelect, btnVars, status, compareStatus,
                 docHidden, ctlVars, schedVars, calls, now, rtVars, sess, procVars>>


\* ------------------------------------------------------------ loop tick
IsSegmenter == runner # NULL /\ SessionType(sess[runner]) = "segmenter"

\* variant of the segmentation throttle that lets every tick through
SegDue_always(t0, last, v) == TRUE

\* (t0 - lastSegTs) >= Math.max(0, Number(els.segInterval?.value || 0))
SegDue(t0, last, v) == t0 - last >= Max(0, v)

\* whether loop(ts) calls runner.run(els.video) in the current state
TickDispatches ==
  /\ running
  /\ runner # NULL
  /\ IF IsSegmenter
     THEN SegDue(now, lastSegTs, segInterval)
     ELSE ~classifyInFlight /\ now - lastClassifyTs >= CLASSIFY_INTERVAL_MS

\* variant of loop that never schedules the next callback
LoopArm_never(p, run) == p

\* the callbacks pending after loop() ran with the others p pending:
\* `if (!running) return;`, else one requestVideoFrameCallback(loop) or
\* requestAnimationFrame(loop) on each path
LoopArm(p, run) == IF run THEN ArmPending(p) ELSE p

\* loop(ts): a pending frame callback fires; dt is 1 when the callback counts
\* against the budget of frame callbacks, 0 when it does not
LoopFires(hd, dt) ==
  /\ hd \in pending
  /\ ~docHidden
  /\ TickDispatches => FreeCalls # {}
  /\ pending' = LoopArm(pending \ {hd}, running)
  /\ rafId' = IF running THEN ArmRafId(pending \ {hd}, rafId) ELSE rafId
  /\ calls' = IF TickDispatches
              THEN [calls EXCEPT ![NewCall] =
                      [sess |-> runner, ts |-> now,
                       neutral |-> sess[runner].model = "null"]]
              ELSE calls
  /\ lastSegTs' = IF TickDispatches /\ IsSegmenter THEN now ELSE lastSegTs
  /\ classifyInFlight' = IF TickDispatches /\ ~IsSegmenter THEN TRUE ELSE classifyInFlight
  /\ Event(IF TickDispatches THEN "dispatch" ELSE "tick", 0, dt)
  /\ UNCHANGED <<hostVars, selVars, btnVars, status, compareStatus, docHidden, running,
                 runner, perfText, canvas, srcObject, tracks, lastClassifyTs, fpsEMA,
                 lastPerfUpdate, now, rtVars, sess, procVars>>

\* variant in which every sample replaces the estimate
Ema_overwrite(old, dt) == IF dt > 0 THEN 1000 \div dt ELSE 0

Tick(hd) == LoopFires(hd, 1)

\* a frame callback of a page whose frames keep coming
TickLive(hd) == LoopFires(hd, 0)

\* fpsEMA = fpsEMA ? (fpsEMA * 0.9 + fps * 0.1) : fps, in whole frames per second
Ema(old, dt) ==
  LET fps == IF dt > 0 THEN 1000 \div dt ELSE 0
  IN IF old # 0 THEN (old * 9 + fps) \div 10 ELSE fps

\* variant that never clears the in-flight flag
FlagAfterCall_never(flag, isSeg, ok) == flag

\* variant that clears the in-flight flag only when the call resolved
FlagAfterCall_thenOnly(flag, isSeg, ok) == IF isSeg \/ ~ok THEN flag ELSE FALSE

\* classifyInFlight after a call settled: .finally(() => { classifyInFlight =
\* false; ... }) on the classification chain, nothing on the segmenter chain
FlagAfterCall(flag, isSeg, ok) == IF isSeg THEN flag ELSE FALSE

\* a run() promise dispatched by loop settles: .then / .catch / .finally
CallSettle(c) ==
  /\ calls[c].sess # NULL
  /\ \E ok \in BOOLEAN :
       LET cl == calls[c]
           isSeg == SessionType(sess[cl.sess]) = "segmenter"
           \* drawSegmentationOverlay throws on the neutral result (ImageData of size 0)
           sampled == ok /\ ~(isSeg /\ cl.neutral)
           \* runner.backendName throws when runner is null
           perfGo == sampled /\ (cl.ts - lastPerfUpdate) > PERF_UPDATE_MS /\ runner # NULL
       IN /\ cl.neutral => ok
          /\ canvas' = IF ok THEN (IF ~isSeg /\ cl.neutral THEN "clear" ELSE "drawn")
                       ELSE canvas
          /\ fpsEMA' = IF sampled THEN Ema(fpsEMA, now - cl.ts) ELSE fpsEMA
          /\ perfText' = IF perfGo THEN "fps" ELSE perfText
          /\ lastPerfUpdate' = IF perfGo THEN cl.ts ELSE lastPerfUpdate
          /\ classifyInFlight' = FlagAfterCall(classifyInFlight, isSeg, ok)
          /\ lastClassifyTs' = IF isSeg THEN lastClassifyTs ELSE cl.ts
          \* the time at which perfEl.textContent was last set to a reading
          /\ perfWrites' = IF perfGo THEN <<now>> ELSE perfWrites
          /\ ev' = IF ok THEN "callOk" ELSE "callFail"
          /\ UNCHANGED <<clicks, ticks, cls>>
  /\ calls' = [calls EXCEPT ![c] = NoCall]
  /\ UNCHANGED <<hostVars, selVars, btnVars, status, compareStatus, docHidden, running,
                 rafId, runner, srcObject, tracks, pending, lastSegTs, now, rtVars, sess,
                 procVars>>

\* performance.now() advances by step, up to limit
AdvanceBy(step, limit) ==
  /\ now + step <= limit
  /\ now' = now + step
  /\ Event("step", 0, 0)
  /\ UNCHANGED <<hostVars, selVars, btnVars, status, compareStatus, docHidden, ctlVars,
                 schedVars, calls, rtVars, sess, procVars>>

Advance == AdvanceBy(TimeStep, MaxTime)

\* the last reading of performance.now() that Advance reaches
LastTime == (MaxTime \div TimeStep) * TimeStep

\* the clock of the perf display: steps longer than PERF_UPDATE_MS
AdvancePerf == AdvanceBy(PerfStep, PerfMaxTime)


\* ------------------------------------- benchmark and comparison handlers
NoAux == [kind |-> "none", pc |-> "none", task |-> "", i |-> 0]
BenchBackends == <<"webgpu", "wasm">>
AuxStream == MaxStarts + auxCount
AuxSess == MaxStarts + (IF aux.i = 2 THEN 2 ELSE 1)
DropAuxSess == [i \in SessIds |-> IF i \in AuxSessIds THEN NoSess ELSE sess[i]]

\* catch (err) of benchBtn / compareClsBtn / compareSegBtn
AuxCatch ==
  /\ status' = IF aux.kind = "bench" THEN "benchmark error" ELSE status
  /\ compareStatus' = IF aux.kind = "bench" THEN compareStatus ELSE "comparison error"
  /\ aux' = NoAux
  /\ sess' = DropAuxSess
  /\ Event("auxFail", 0, 0)
  /\ UNCHANGED <<hostVars, selVars, btnVars, docHidden, ctlVars, schedVars, calls, now,
                 rtVars, starts, nextStart, restart, auxCount>>

AuxUnchanged ==
  UNCHANGED <<hostVars, selVars, btnVars, docHidden, running, rafId, runner, perfText,
              canvas, pending, schedVars, calls, now, g, loadCalls, starts, nextStart,
              restart>>

\* click on benchBtn, compareClsBtn or compareSegBtn, up to the first await
AuxClick ==
  /\ ~docHidden
  /\ aux.pc = "none"
  /\ auxCount < MaxAux
  /\ auxCount' = auxCount + 1
  /\ \E k \in {"bench", "compareCls", "compareSeg"} :
       aux' = [kind |-> k,
               pc |-> IF k = "compareCls" THEN "importTf" ELSE "getUserMedia",
               task |-> IF k = "bench" THEN taskSelect ELSE "",
               i |-> 0]
  /\ Event("step", 1, 0)
  /\ UNCHANGED <<status, compareStatus, srcObject, tracks, tfBackend, sess>>
  /\ AuxUnchanged

\* setupWebcam in the handler: getUserMedia settles
AuxGum ==
  /\ aux.pc = "getUserMedia"
  /\ \/ /\ tracks' = [tracks EXCEPT ![AuxStream] = "live"]
        /\ srcObject' = AuxStream
        /\ aux' = [aux EXCEPT !.pc = "play"]
        /\ Event("step", 0, 0)
        /\ UNCHANGED <<status, compareStatus, tfBackend, sess, auxCount>>
        /\ AuxUnchanged
     \/ AuxCatch

\* setupWebcam in the handler returns
AuxPlay ==
  /\ aux.pc = "play"
  /\ \/ /\ aux.kind = "bench"
        /\ status' = "benchmark init"
        /\ aux' = [aux EXCEPT !.pc = "make", !.i = 1]
        /\ Event("step", 0, 0)
        /\ UNCHANGED <<compareStatus, srcObject, tracks, tfBackend, sess, auxCount>>
        /\ AuxUnchanged
     \/ /\ aux.kind = "compareCls"
        /\ tfBackend' = "cpu"
        /\ aux' = [aux EXCEPT !.pc = "baseline"]
        /\ Event("step", 0, 0)
        /\ UNCHANGED <<status, compareStatus, srcObject, tracks, sess, auxCount>>
        /\ AuxUnchanged
     \/ /\ aux.kind = "compareSeg"
        /\ compareStatus' = "comparison TFJS-CPU"
        /\ aux' = [aux EXCEPT !.pc = "importTf"]
        /\ Event("step", 0, 0)
        /\ UNCHANGED <<status, srcObject, tracks, tfBackend, sess, auxCount>>
        /\ AuxUnchanged
     \/ AuxCatch

\* await import('@tensorflow/tfjs') settles
AuxImportTf ==
  /\ aux.pc = "importTf"
  /\ \/ /\ aux.kind = "compareCls"
        /\ aux' = [aux EXCEPT !.pc = "getUserMedia"]
        /\ Event("step", 0, 0)
        /\ UNCHANGED <<status, compareStatus, srcObject, tracks, tfBackend, sess, auxCount>>
        /\ AuxUnchanged
     \/ /\ aux.kind = "compareSeg"
        /\ tfBackend' = "cpu"
        /\ aux' = [aux EXCEPT !.pc = "baseline"]
        /\ Event("step", 0, 0)
        /\ UNCHANGED <<status, compareStatus, srcObject, tracks, sess, auxCount>>
        /\ AuxUnchanged
     \/ AuxCatch

\* the runner an auxiliary handler builds, and init() called on it
AuxRunner(task, backend) ==
  /\ sess' = [sess EXCEPT ![AuxSess] = InitSync(NewSession(task, backend), hasGpu)]
  /\ tfBackend' = InitSyncBackend(NewSession(task, backend), hasGpu, tfBackend)

\* the TFJS-CPU baseline of a comparison ends; the LiteRT WASM runner is
\* built and its init() called
AuxBaseline ==
  /\ aux.pc = "baseline"
  /\ \/ /\ AuxRunner(IF aux.kind = "compareCls" THEN "classification" ELSE "selfie", "wasm")
        /\ compareStatus' = "comparison LiteRT WASM"
        /\ aux' = [aux EXCEPT !.pc = "init"]
        /\ Event("initCall", 0, 0)
        /\ UNCHANGED <<status, srcObject, tracks, auxCount>>
        /\ AuxUnchanged
     \/ AuxCatch

\* benchmark: await makeRunner(task, b) settles; r.init() is called
AuxMake ==
  /\ aux.pc = "make"
  /\ \/ /\ AuxRunner(aux.task, BenchBackends[aux.i])
        /\ aux' = [aux EXCEPT !.pc = "init"]
        /\ Event("initCall", 0, 0)
        /\ UNCHANGED <<status, compareStatus, srcObject, tracks, auxCount>>
        /\ AuxUnchanged
     \/ AuxCatch

\* await r.init() settles in an auxiliary handler
AuxInitSettled ==
  /\ aux.pc = "init"
  /\ \/ /\ sess[AuxSess].pc = "resolved"
        /\ aux' = [aux EXCEPT !.pc = "runs"]
        /\ Event("step", 0, 0)
        /\ UNCHANGED <<status, compareStatus, srcObject, tracks, tfBackend, sess, auxCount>>
        /\ AuxUnchanged
     \/ /\ sess[AuxSess].pc = "rejected"
        /\ AuxCatch

\* the timed run() loops of an auxiliary handler end
AuxRuns ==
  /\ aux.pc = "runs"
  /\ \/ /\ aux.kind = "bench" /\ aux.i = 1
        /\ status' = "benchmark init"
        /\ aux' = [aux EXCEPT !.pc = "make", !.i = 2]
        /\ Event("step", 0, 0)
        /\ UNCHANGED <<compareStatus, srcObject, tracks, tfBackend, sess, auxCount>>
        /\ AuxUnchanged
     \/ /\ ~(aux.kind = "bench" /\ aux.i = 1)
        /\ status' = IF aux.kind = "bench" THEN "benchmark done" ELSE status
        /\ compareStatus' = IF aux.kind = "bench" THEN compareStatus ELSE "comparison done"
        /\ aux' = NoAux
        /\ sess' = DropAuxSess
        /\ Event("step", 0, 0)
        /\ UNCHANGED <<srcObject, tracks, tfBackend, auxCount>>
        /\ AuxUnchanged
     \/ AuxCatch

\* ------------------------------------------------------------ the system
\* ------------------------------------------------------ Classifier.run
\* one call of Classifier.run() on its own: the inputs are the session (model
\* set or not, topK, number of labels read by init) and the probability output
\* the model gives for the frame under each of the two normalizations
Classes == 0 .. (NumClasses - 1)
ProbVals == (0 .. MaxProb) \cup {NaN}
Outputs == [Classes -> ProbVals]

isFinite(p) == p # NaN

\* tf.all(tf.isFinite(probs))
AllFinite(probs) == \A i \in Classes : isFinite(probs[i])

\* the largest remaining entry, the lower index first among equals
Best(probs, S) ==
  CHOOSE i \in S : \A j \in S : probs[i] > probs[j] \/ (probs[i] = probs[j] /\ i <= j)

RECURSIVE topkIndices(_, _, _)
topkIndices(probs, k, S) ==
  IF k = 0 \/ S = {}
  THEN <<>>
  ELSE LET b == Best(probs, S)
       IN <<b>> \o topkIndices(probs, k - 1, S \ {b})

\* tf.topk(squeezed, this.topK)
topk(probs, k) ==
  LET indices == topkIndices(probs, k, Classes)
  IN [values |-> [j \in 1 .. Len(indices) |-> probs[indices[j]]],
      indices |-> indices]

\* tryRun returned null
NullResult == [values |-> <<>>, indices |-> <<>>]

\* tryRun once the model has produced probs: null if non-finite, else top-K
tryRun(probs, k) ==
  IF ~AllFinite(probs) THEN NullResult ELSE topk(probs, k)

\* this.labels[i] and `class_${i}`
LabelOf(i) == "label_" \o ToString(i)
ClassOf(i) == "class_" \o ToString(i)

\* the out[] array built from a non-null result
BuildOut(result, nLabels) ==
  [j \in 1 .. Len(result.indices) |->
     LET i == result.indices[j]
         p == result.values[j]
     IN [label |-> IF i >= 0 /\ i < nLabels THEN LabelOf(i) ELSE ClassOf(i),
         prob |-> IF isFinite(p) THEN p ELSE 0]]

Sentinel == << [label |-> "Model produced NaNs", prob |-> 0] >>

NeedsFallback_never(result) == FALSE

NeedsFallback_always(result) == TRUE

\* if (result === null) after the primary attempt
NeedsFallback(result) == result = NullResult

\* { rgba: new Uint8ClampedArray(0), width: 0, height: 0 }
NeutralMask == [rgba |-> 0, width |-> 0, height |-> 0]

\* the { rgba, width, height } a segmenter builds from the model output:
\* the labels upsampled to the video size when the video has one, else the
\* model's S x S grid; rgba is given by its length
SegResult(vidW, vidH) ==
  LET W == IF vidW # 0 /\ vidH # 0 THEN vidW ELSE SegSide
      H == IF vidW # 0 /\ vidH # 0 THEN vidH ELSE SegSide
  IN [rgba |-> W * H * 4, width |-> W, height |-> H]

HasModel_always(c) == TRUE

\* `if (!this.model) return <neutral>` at the head of every run()
HasModel(c) == c.model

\* no call of Classifier.run() outside the page
NoRun == [pc |-> "idle", kind |-> "classification", model |-> FALSE,
          topK |-> 1, nLabels |-> 0,
          outT |-> [i \in Classes |-> 0], outL |-> [i \in Classes |-> 0],
          vidW |-> 0, vidH |-> 0,
          result |-> NullResult, out |-> <<>>, mask |-> NeutralMask,
          execs |-> 0, picked |-> "none"]

RunInputs ==
  { [NoRun EXCEPT !.model = m, !.topK = k, !.nLabels = n, !.outT = t, !.outL = l] :
      m \in BOOLEAN, k \in 1 .. NumClasses, n \in 0 .. NumClasses,
      t \in Outputs, l \in Outputs }

RunEvent(name) ==
  /\ ev' = name
  /\ UNCHANGED <<pageVars, perfWrites, clicks, ticks>>

\* what run() does with the result left by its attempts: the sentinel if it is
\* still null, else on to reading values and indices
AfterAttempts(c, r, who) ==
  IF r = NullResult
  THEN [c EXCEPT !.pc = "returned", !.result = r, !.out = Sentinel,
                 !.execs = c.execs + 1]
  ELSE [c EXCEPT !.pc = "collect", !.result = r, !.picked = who,
                 !.execs = c.execs + 1]

\* run(sourceEl) up to its first await
RunCall ==
  /\ cls.pc = "idle"
  /\ cls' = IF ~HasModel(cls)
            THEN [cls EXCEPT !.pc = "returned", !.out = <<>>, !.mask = NeutralMask]
            ELSE [cls EXCEPT !.pc = IF cls.kind = "classification"
                                    THEN "primary" ELSE "segment"]
  /\ RunEvent("run")

\* await tryRun(inp) with the TorchVision normalization
RunPrimary ==
  /\ cls.pc = "primary"
  /\ \E thrown \in BOOLEAN :
       IF thrown
       THEN /\ cls' = [cls EXCEPT !.pc = "rejected", !.execs = cls.execs + 1]
            /\ RunEvent("runThrow")
       ELSE LET r == tryRun(cls.outT, cls.topK)
            IN /\ cls' = IF NeedsFallback(r)
                         THEN [cls EXCEPT !.pc = "fallback", !.result = r,
                                          !.execs = cls.execs + 1]
                         ELSE AfterAttempts(cls, r, "primary")
               /\ RunEvent("runPrimary")

\* await tryRun(alt) with the TFLite [-1,1] normalization
RunFallback ==
  /\ cls.pc = "fallback"
  /\ \E thrown \in BOOLEAN :
       IF thrown
       THEN /\ cls' = [cls EXCEPT !.pc = "rejected", !.execs = cls.execs + 1]
            /\ RunEvent("runThrow")
       ELSE /\ cls' = AfterAttempts(cls, tryRun(cls.outL, cls.topK), "fallback")
            /\ RunEvent("runFallback")

\* SegmenterSelfie.run / SegmenterSelfieMulticlass.run past the model check:
\* one forward pass, labels, upsampling, await up.data(), colorization
RunSegment ==
  /\ cls.pc = "segment"
  /\ \E thrown \in BOOLEAN :
       IF thrown
       THEN /\ cls' = [cls EXCEPT !.pc = "rejected", !.execs = cls.execs + 1]
            /\ RunEvent("runThrow")
       ELSE /\ cls' = [cls EXCEPT !.pc = "returned", !.execs = cls.execs + 1,
                                  !.mask = SegResult(cls.vidW, cls.vidH)]
            /\ RunEvent("runSegment")

\* values and indices read back, out[] built and returned
RunReturn ==
  /\ cls.pc = "collect"
  /\ cls' = [cls EXCEPT !.pc = "returned", !.out = BuildOut(cls.result, cls.nLabels)]
  /\ RunEvent("runReturn")

\* the page after main.js is loaded
PageInit ==
  /\ hasGpu \in BOOLEAN
  /\ hasRVFC \in BOOLEAN
  /\ taskSelect \in Tasks
  /\ backendSelect \in Accels
  /\ segInterval \in SegIntervals
  /\ startDisabled = FALSE
  /\ stopDisabled = TRUE
  /\ selDisabled = FALSE
  /\ status = ""
  /\ compareStatus = ""
  /\ docHidden = FALSE
  /\ running = FALSE
  /\ rafId = NULL
  /\ runner = NULL
  /\ perfText = "unknown"
  /\ canvas = "clear"
  /\ srcObject = NULL
  /\ tracks = [s \in StreamIds |-> "none"]
  /\ pending = {}
  /\ classifyInFlight = FALSE
  /\ lastClassifyTs = 0
  /\ lastSegTs = 0
  /\ fpsEMA = 0
  /\ lastPerfUpdate = 0
  /\ calls = [c \in CallIds |-> NoCall]
  /\ now = 0
  /\ g = [p |-> "null", ok |-> FALSE]
  /\ loadCalls = 0
  /\ tfBackend = "none"
  /\ sess = [i \in SessIds |-> NoSess]
  /\ starts = [h \in StartIds |-> NoStart]
  /\ nextStart = 0
  /\ restart = NoRestart
  /\ aux = NoAux
  /\ auxCount = 0
  /\ ev = "load page"
  /\ clicks = 0
  /\ ticks = 0

Init == PageInit /\ cls = NoRun /\ perfWrites = <<>>

SessStep(i) ==
  \/ SessTfReady(i)
  \/ SessEnsureDone(i)
  \/ SessAssertAsset(i)
  \/ SessLabels(i)
  \/ SessCompile(i)
  \/ SessFbReady(i)
  \/ SessFbCompile(i)
  \/ SessOptAssets(i)

StartStep(h) ==
  \/ StartGum(h)
  \/ StartPlay(h)
  \/ StartImport(h)
  \/ StartInitSettled(h)

AuxSettle ==
  \/ AuxGum
  \/ AuxPlay
  \/ AuxImportTf
  \/ AuxBaseline
  \/ AuxMake
  \/ AuxInitSettled
  \/ AuxRuns

\* user events of the lifecycle controller
LifeClick ==
  \/ StartClick
  \/ StopClick
  \/ VisibilityChange
  \/ ToggleClick
  \/ SelectTask
  \/ SelectBackend

\* asynchronous continuations of the start handlers, init() and the runtime load
Settle ==
  \/ \E h \in StartIds : StartStep(h)
  \/ \E i \in SessIds : SessStep(i)
  \/ LoadSettle
  \/ LoadDetected

\* the page with the segmentation interval slider at 0
InitSlider0 == Init /\ segInterval = 0

\* Lifecycle: every user event of the controller, every continuation, frame
\* callbacks and run() completions, with the clock standing still.
Next ==
  \/ clicks < MaxClicks /\ LifeClick
  \/ RestartResume
  \/ Settle
  \/ \E hd \in Handles : ticks < LifeTicks /\ Tick(hd)
  \/ \E c \in CallIds : CallSettle(c)

Spec == InitSlider0 /\ [][Next]_vars

\* Benchmark and comparison handlers next to start and stop.
NextBench ==
  \/ clicks < MaxClicks /\ (StartClick \/ StopClick \/ AuxClick)
  \/ Settle
  \/ AuxSettle

SpecBench == InitSlider0 /\ [][NextBench]_vars

\* Frame scheduler: start, stop and the interval slider with frame callbacks,
\* run() completions and the clock.
NextSched ==
  \/ clicks < MaxClicks /\ (StartClick \/ StopClick \/ SegIntervalInput)
  \/ Settle
  \/ \E hd \in Handles : ticks < MaxTicks /\ Tick(hd)
  \/ \E c \in CallIds : CallSettle(c)
  \/ Advance

SpecSched == Init /\ [][NextSched]_vars

\* Perf display: one session, its frame callbacks and run() completions, with
\* a clock that runs past PERF_UPDATE_MS.
NextPerf ==
  \/ clicks < MaxClicks /\ nextStart = 0 /\ StartClick
  \/ Settle
  \/ \E hd \in Handles : ticks < MaxTicks /\ Tick(hd)
  \/ \E c \in CallIds : CallSettle(c)
  \/ AdvancePerf

SpecPerf == Init /\ [][NextPerf]_vars

\* Scheduler of one session that stays running: frame callbacks keep firing,
\* the clock advances and every run() promise settles.
NextLive ==
  \/ clicks < MaxClicks /\ nextStart = 0 /\ StartClick
  \/ Settle
  \/ \E hd \in Handles : TickLive(hd)
  \/ \E c \in CallIds : CallSettle(c)
  \/ Advance

SpecLive ==
  /\ Init /\ [][NextLive]_vars
  /\ WF_vars(\E hd \in Handles : TickLive(hd))
  /\ WF_vars(\E c \in CallIds : CallSettle(c))
  /\ WF_vars(Advance)

\* a session object on which run() is called once, for every input
InitRun ==
  /\ PageInit
  /\ hasGpu /\ hasRVFC
  /\ taskSelect = "classification" /\ backendSelect = "webgpu" /\ segInterval = 0
  /\ cls \in RunInputs
  /\ perfWrites = <<>>

\* Classifier.run(): one call, from entry to the settled promise.
NextRun ==
  \/ RunCall
  \/ RunPrimary
  \/ RunFallback
  \/ RunReturn

SpecRun == InitRun /\ [][NextRun]_vars

\* sessions of the two segmenters and the video sizes run() can meet
SegRunInputs ==
  { [NoRun EXCEPT !.kind = t, !.model = m, !.vidW = w, !.vidH = h] :
      t \in Tasks \ {"classification"}, m \in BOOLEAN,
      w \in 0 .. VidSide, h \in 0 .. VidSide }

\* a session object of any task kind on which run() is called once
InitRunAny ==
  /\ PageInit
  /\ hasGpu /\ hasRVFC
  /\ taskSelect = "classification" /\ backendSelect = "webgpu" /\ segInterval = 0
  /\ cls \in RunInputs \cup SegRunInputs
  /\ perfWrites = <<>>

\* run() of the three session classes: one call, from entry to the settled promise.
NextRunAny ==
  \/ RunCall
  \/ RunPrimary
  \/ RunFallback
  \/ RunReturn
  \/ RunSegment

SpecRunAny == InitRunAny /\ [][NextRunAny]_vars

\* every continuation of run() whose awaited promise has settled is run by the
\* event loop
SpecRunLive == SpecRun /\ WF_vars(NextRun)

\* ================================================================ claims
InFlight(h) == starts[h].pc \in {"getUserMedia", "play", "import", "init"}

\* C1: for a classification session, at most one run() call dispatched by the
\* tick loop against the active session is unresolved at any time.
C1_OneUnresolved ==
  (runner # NULL /\ sess[runner].kind = "classification")
    => Cardinality({c \in CallIds : calls[c].sess = runner}) <= 1

\* C2: no start begins (no new start handler passes the guard) while the
\* controller is Running or Starting, whether by a start-button click or by
\* restartWithCurrentSettings / the backend toggle.
C2_StartRejected ==
  [][(running \/ Starting) => nextStart' = nextStart]_vars

\* C3: once a failed start has brought the controller back to Idle, no
\* capture stream remains acquired (no live track, srcObject null) and the
\* partially built session is no longer referenced by runner.
C3_ReleasedOnFailure ==
  (ev = "startFail" /\ Idle)
    => /\ srcObject = NULL
       /\ \A s \in StreamIds : tracks[s] # "live"
       /\ runner = NULL

\* C4: when a start fails, the error message is written to the status
\* display, running is false, the start button is enabled again and the
\* failing attempt schedules no loop callback.
C4_StartAborted ==
  [][ev' = "startFail"
       => /\ status' \notin {"", "initializing", "ready", "stopped", "paused (tab hidden)"}
          /\ ~running'
          /\ ~startDisabled'
          /\ pending' = pending
          /\ rafId' = rafId]_vars

\* C5: after stopEverything() returns, running is false, every pending
\* requestAnimationFrame handle is cancelled and rafId is null, every track of
\* the video element's stream is stopped and srcObject is null, the canvas is
\* cleared, runner is null and the perf display shows its initial value.
C5_AfterStop ==
  [][ev' = "stop"
       => /\ ~running'
          /\ rafId' = NULL
          /\ ~hasRVFC => pending' = {}
          /\ srcObject # NULL => tracks'[srcObject] = "stopped"
          /\ srcObject' = NULL
          /\ canvas' = "clear"
          /\ runner' = NULL
          /\ perfText' = "unknown"]_vars

\* C6: stop is idempotent: a second stopEverything() right after a first, or
\* a stopEverything() when no start ever happened, leaves the controller
\* state as it is.
C6_StopIdempotent ==
  /\ stopEverything(stopEverything(Ctl)) = stopEverything(Ctl)
  /\ ev = "stop" => stopEverything(Ctl) = Ctl
  /\ nextStart = 0 => stopEverything(Ctl) = Ctl

\* a stop that acted on a running session has just returned
C6_Stopped ==
  /\ ev = "stop"
  /\ \E s \in StreamIds : tracks[s] = "stopped"
  /\ stopEverything(Ctl) = Ctl

\* C7: in a restart issued while Running, the prior session is torn down
\* (running false, its tracks stopped, runner no longer the old session) when
\* the handler yields, and stays so while the new start acquires the webcam
\* and calls init(): the old session is never referenced when the new init()
\* begins.
C7_TeardownBeforeInit ==
  /\ restart.pc = "yield"
       => /\ runner # restart.oldRunner
          /\ restart.oldStream # NULL => tracks[restart.oldStream] = "stopped"
  /\ ev = "restartStart" => ~running
  /\ \A h \in StartIds :
       (InFlight(h) /\ starts[h].priorRunner # NULL)
         => /\ runner # starts[h].priorRunner
            /\ starts[h].priorStream # NULL => tracks[starts[h].priorStream] = "stopped"

\* the start issued by a restart-while-running has called init() on its session
C7_NewInitAfterRestart ==
  \E h \in StartIds :
    /\ starts[h].priorRunner # NULL
    /\ starts[h].pc = "init"
    /\ runner = h

\* C8: right after stopEverything() returns, no MediaStream obtained by an
\* earlier setupWebcam call (start, benchmark, comparison) has a live track.
C8_NoLiveTrackAfterStop ==
  ev = "stop" => \A s \in StreamIds : tracks[s] # "live"

\* C9: loadLiteRt is invoked at most once, however many ensureLiteRtOnce()
\* calls are made, sequentially or concurrently.
C9_LoadOnce == loadCalls <= 1

\* two init() calls await the same in-flight load
C9_TwoAwaitOneLoad ==
  /\ loadCalls = 1
  /\ g.p = "loading"
  /\ Cardinality({i \in SessIds : sess[i].pc = "ensure"}) = 2

\* C10: for every task kind, an init() that requested webgpu and whose
\* WebGPU compilation failed with a recognized signature (custom op,
\* Convolution2DTransposeBias, missing buffer handle) does not reject on that
\* failure: it retries on WASM.
C10_FallbackOnRecognized ==
  \A i \in SessIds :
    (sess[i].requested = "webgpu" /\ sess[i].compiles = <<"webgpu">>
       /\ sess[i].pc = "rejected")
      => Alternatives(sess[i].err) \cap
           {"custom op", "Convolution2DTransposeBias", "does not have a buffer handle"} = {}

\* C11: init() goes to the fallback compile only when 'webgpu' was requested
\* and the compile error matches the recognized signature; on any other
\* compile error, or when 'wasm' was requested, the original error
\* propagates, no second compile is attempted, the accelerator is not
\* changed and the model stays unset.
C11_FallbackOnlyWhenRecognized ==
  [][\A i \in SessIds :
       sess[i].pc = "compile" =>
         /\ \A msg \in CompileMsgs :
              LET r == CompileFailed(sess[i], msg)
              IN IF r.pc = "fbReady"
                 THEN /\ sess[i].requested = "webgpu"
                      /\ isGpuCompileFailure(sess[i].kind, msg)
                 ELSE r = [sess[i] EXCEPT !.pc = "rejected", !.err = msg]
         /\ sess'[i].pc = "fbReady" => sess[i].requested = "webgpu"
         /\ (sess'[i].pc = "rejected" /\ sess'[i].err \in CompileMsgs)
              => /\ sess'[i].accelerator = sess[i].accelerator
                 /\ sess'[i].compiles = sess[i].compiles
                 /\ Len(sess'[i].compiles) = 1
                 /\ sess'[i].model = "null"]_vars

\* a segmenter asked for 'wasm' has rejected with a recognized compile error,
\* after one compile and with no model
C11_WasmRecognizedRejected ==
  \E i \in SessIds :
    /\ sess[i].kind # "classification"
    /\ sess[i].requested = "wasm"
    /\ sess[i].pc = "rejected"
    /\ isGpuCompileFailure(sess[i].kind, sess[i].err)
    /\ sess[i].compiles = <<"wasm">>
    /\ sess[i].model = "null"

\* C12: for every task kind, init() with accelerator 'webgpu' on a host
\* without navigator.gpu fails before any model is compiled: such a session
\* is rejected as soon as init() has been called, it never compiles and never
\* runs on another accelerator.
C12_NoGpuRejects ==
  \A i \in SessIds :
    (~hasGpu /\ sess[i].requested = "webgpu" /\ sess[i].pc # "none")
      => /\ sess[i].pc = "rejected"
         /\ sess[i].accelerator = "webgpu"
         /\ sess[i].model = "null"

\* C13: when a classification call completes (success or failure), the
\* in-flight flag is cleared and lastClassifyTs is set to the completion
\* time, so that the next dispatch comes no earlier than
\* CLASSIFY_INTERVAL_MS after the completion.
C13_ThrottleFromCompletion ==
  [][\A c \in CallIds :
       (/\ calls[c].sess # NULL
        /\ calls'[c].sess = NULL
        /\ sess[calls[c].sess].kind = "classification")
         => /\ ~classifyInFlight'
            /\ lastClassifyTs' = now]_vars

\* C14: for a segmentation session, at most one run() call is outstanding
\* against the session at any time, whatever the minimum interval and the
\* inference latency.
C14_OneOutstandingSegmentation ==
  \A i \in SessIds :
    sess[i].kind \in {"selfie", "selfie-mc"}
      => Cardinality({c \in CallIds : calls[c].sess = i}) <= 1

\* C15: no partially initialized session is observable to the scheduler:
\* whenever running is true, runner refers to a session whose init() has
\* fully resolved (model compiled, warm-up done), so the tick loop only ever
\* calls run() on such a session.
C15_RunningImpliesInitialized ==
  /\ running
       => /\ runner # NULL
          /\ sess[runner].pc = "resolved"
          /\ sess[runner].model # "null"
          /\ sess[runner].warmedUp
  /\ \A c \in CallIds : calls[c].sess # NULL => ~calls[c].neutral

\* C16: every invocation of loop() that finds running true schedules exactly
\* one next callback (and stores its handle in rafId on the
\* requestAnimationFrame path), whether or not it dispatches; an invocation
\* that finds running false schedules none and dispatches nothing.
C16_RearmExactlyOnce ==
  [][ticks' = ticks + 1
       => \E hd \in pending :
            IF running
            THEN \E n \in Handles \ (pending \ {hd}) :
                   /\ pending' = (pending \ {hd}) \cup {n}
                   /\ rafId' = IF hasRVFC THEN rafId ELSE n
            ELSE /\ pending' = pending \ {hd}
                 /\ calls' = calls
                 /\ rafId' = rafId]_vars

\* loop() ran while a classification call was in flight: it dispatched
\* nothing and its successor callback is pending
C16_InFlightSkipRearmed ==
  /\ ev = "tick"
  /\ running
  /\ classifyInFlight
  /\ pending # {}

\* C17: a run() call that was in flight when stop executed and completes
\* afterwards has its result discarded: it does not draw onto the cleared
\* canvas and changes neither the perf display nor the throughput estimate.
C17_ResultDiscardedAfterStop ==
  [][\A c \in CallIds :
       (/\ calls[c].sess # NULL
        /\ calls'[c].sess = NULL
        /\ ~running
        /\ runner = NULL)
         => /\ canvas' = canvas
            /\ perfText' = perfText
            /\ fpsEMA' = fpsEMA]_vars

\* C18: a run() call that rejects inside the tick loop does not stop the
\* tick chain: running, the pending callback and rafId are as before, a
\* callback is still pending while running is true, and for classification
\* the in-flight flag is cleared so that a later tick can dispatch again.
C18_FailureKeepsChain ==
  [][\A c \in CallIds :
       (/\ calls[c].sess # NULL
        /\ calls'[c].sess = NULL
        /\ ev' = "callFail")
         => /\ running' = running
            /\ pending' = pending
            /\ rafId' = rafId
            /\ running' => pending' # {}
            /\ sess[calls[c].sess].kind = "classification" => ~classifyInFlight']_vars

\* a classification call has just rejected while the session is running: the
\* next callback is pending and the in-flight flag is clear
C18_FailedCallChainArmed ==
  /\ ev = "callFail"
  /\ running
  /\ runner # NULL
  /\ sess[runner].kind = "classification"
  /\ pending # {}
  /\ ~classifyInFlight
  /\ \A c \in CallIds : calls[c].sess = NULL

\* C19: result selection of Classifier.run(). On a session with a model, a call
\* that returns gives the top-K of the primary (TorchVision) attempt when its
\* probability output is finite, the top-K of the fallback (TFLite) attempt
\* when the primary output is non-finite and the fallback output is finite,
\* and the single sentinel entry with probability 0 exactly when both outputs
\* are non-finite.
C19_ResultSelection ==
  (cls.model /\ cls.pc = "returned") =>
    /\ AllFinite(cls.outT) =>
         /\ cls.picked = "primary"
         /\ cls.out = BuildOut(topk(cls.outT, cls.topK), cls.nLabels)
    /\ (~AllFinite(cls.outT) /\ AllFinite(cls.outL)) =>
         /\ cls.picked = "fallback"
         /\ cls.out = BuildOut(topk(cls.outL, cls.topK), cls.nLabels)
    /\ (cls.out = Sentinel) <=> (~AllFinite(cls.outT) /\ ~AllFinite(cls.outL))
    /\ cls.out = Sentinel => cls.out[1].prob = 0

\* a call whose primary output was non-finite returned the fallback top-K
C19_FallbackReturned ==
  /\ cls.model /\ cls.pc = "returned"
  /\ ~AllFinite(cls.outT) /\ AllFinite(cls.outL)
  /\ cls.picked = "fallback"
  /\ Len(cls.out) = cls.topK

C21_NeutralWithoutModel ==
  (~cls.model /\ cls.pc # "idle") =>
    /\ cls.pc = "returned"
    /\ cls.execs = 0
    /\ cls.kind = "classification" => cls.out = <<>>
    /\ cls.kind # "classification" => cls.mask = NeutralMask
    /\ ev = "run"

\* a segmenter without a model has answered a run() call on a sized video
C21_SegmenterNeutral ==
  /\ ~cls.model /\ cls.pc = "returned"
  /\ cls.kind = "selfie-mc"
  /\ cls.vidW # 0 /\ cls.vidH # 0
  /\ cls.mask.rgba = 0

\* C22: when the document becomes hidden while running is true, the handler
\* does what a stop does (stopEverything, stop disabled, start and selectors
\* enabled) and leaves the controller Idle: no start handler in flight and no
\* restart pending, so that only a later start request can make it Running
\* again; running turns true only at the end of a start handler in flight; a
\* visibility change that is not "hidden while running" changes no lifecycle
\* state.
C22_HiddenStopsAndStaysIdle ==
  /\ [][docHidden' # docHidden
          => IF docHidden' /\ running
             THEN /\ ev' = "stop"
                  /\ running' = FALSE /\ runner' = NULL /\ rafId' = NULL
                  /\ srcObject' = NULL /\ canvas' = "clear" /\ perfText' = "unknown"
                  /\ stopDisabled' /\ ~startDisabled' /\ ~selDisabled'
                  /\ \A h \in StartIds : ~InFlight(h)
                  /\ restart.pc = "none"
             ELSE UNCHANGED <<ctlVars, btnVars, status, schedVars, sess, starts,
                              nextStart, restart>>]_vars
  /\ [][(running' /\ ~running) => (ev' = "startOk" /\ \E h \in StartIds : InFlight(h))]_vars
  /\ [][(\E h \in StartIds : starts'[h].pc # "none" /\ starts[h].pc = "none")
          => ev' \in {"startBegin", "restartStart", "toggleStart"}]_vars

\* C23: for every task kind, init() checks the model URL before it compiles:
\* the first loadAndCompile of an init() is called only after
\* assertAsset(modelUrl) has accepted the response (status OK and not
\* text/html), and an init() that met a non-OK or HTML response is rejected
\* with the asset-missing error, with no compile attempted and no model set.
C23_AssetCheckedBeforeCompile ==
  /\ [][\A i \in SessIds :
          /\ (sess[i].compiles = <<>> /\ sess'[i].compiles # <<>>)
               => sess[i].pc = "labels"
          /\ (sess'[i].pc = "labels" /\ sess[i].pc # "labels")
               => sess[i].pc = "assertAsset"
          /\ (sess[i].pc = "assertAsset" /\ sess'[i].pc = "rejected")
               => /\ sess'[i].err \in {"Asset not found or not served", "Unexpected HTML"}
                  /\ sess'[i].compiles = <<>>
                  /\ sess'[i].model = "null"]_vars

\* C24: in a classification session a tick dispatches only when no call is in
\* flight and its timestamp is at least CLASSIFY_INTERVAL_MS after the throttle
\* reference lastClassifyTs, and the timestamps of consecutive dispatches of
\* the session are at least CLASSIFY_INTERVAL_MS apart: at a dispatch, every
\* earlier dispatch against the session that is still unresolved lies at
\* least that far back.
C24_DispatchesSpaced ==
  [][(ev' = "dispatch" /\ ~IsSegmenter)
       => /\ ~classifyInFlight
          /\ now - lastClassifyTs >= CLASSIFY_INTERVAL_MS
          /\ \A c \in CallIds :
               calls[c].sess = runner => now - calls[c].ts >= CLASSIFY_INTERVAL_MS]_vars

\* C25: in a segmentation session a tick dispatches run() if and only if the
\* time since the last segmentation dispatch is at least the configured
\* interval, a negative setting counting as 0 (so that with 0 every tick
\* dispatches); lastSegTs is set to the dispatch time at a dispatch and left
\* alone otherwise, so a dispatch lies at least the interval after every
\* earlier dispatch of the session.
C25_SegmentationThrottle ==
  [][(ticks' = ticks + 1 /\ running /\ IsSegmenter)
          => /\ (ev' = "dispatch") <=> (now - lastSegTs >= Max(0, segInterval))
             /\ segInterval <= 0 => ev' = "dispatch"
             /\ ev' = "dispatch"
                  => /\ lastSegTs' = now
                     /\ \A c \in CallIds :
                          calls[c].sess = runner
                            => now - calls[c].ts >= Max(0, segInterval)
             /\ ev' # "dispatch" => (lastSegTs' = lastSegTs /\ calls' = calls)
             /\ \A c \in CallIds : calls[c].sess = runner => calls[c].ts <= lastSegTs
             /\ \A v \in (0 - TimeStep) .. 0 : SegDue(now, lastSegTs, v)]_vars

\* a tick of a segmentation session was throttled after an earlier dispatch
C25_ThrottledTick ==
  /\ running /\ IsSegmenter
  /\ ev = "tick"
  /\ lastSegTs > 0
  /\ now - lastSegTs < segInterval

\* the scheduler state a start handler leaves
SchedReset ==
  /\ fpsEMA = 0 /\ lastPerfUpdate = 0 /\ lastSegTs = 0
  /\ ~classifyInFlight /\ lastClassifyTs = 0
  /\ perfText = "unknown"

\* C26: a successful start resets the scheduler state (fpsEMA, lastPerfUpdate,
\* lastSegTs, classifyInFlight, lastClassifyTs, perf display) in the step that
\* sets running and arms the first tick, and the state stays reset until a tick
\* of the new session fires: while running, with no call against the new
\* session dispatched, no step other than a tick changes the reset state.
C26_FirstTickSeesReset ==
  /\ [][ev' = "startOk" => (running' /\ SchedReset' /\ pending' # {})]_vars
  /\ [][(running /\ running' /\ SchedReset /\ ticks' = ticks
          /\ \A h \in StartIds : ~InFlight(h)
          /\ \A c \in CallIds : calls[c].sess # runner)
         => SchedReset']_vars

\* C27: the throughput estimate fpsEMA is updated only by the success handler
\* of a completed run() call (apart from the reset to 0 by a start handler):
\* ticks, whether they dispatch or skip, and calls that reject leave it
\* unchanged; a sample that finds fpsEMA = 0 becomes the estimate as it is,
\* any other is folded in with weight 1/10.
C27_EmaOnlyOnSuccess ==
  [][/\ fpsEMA' # fpsEMA => (ev' = "callOk" \/ (ev' = "startOk" /\ fpsEMA' = 0))
     /\ ev' \in {"tick", "dispatch", "callFail"} => fpsEMA' = fpsEMA
     /\ ev' = "callOk"
          => \E c \in CallIds :
               /\ calls[c].sess # NULL /\ calls'[c].sess = NULL
               /\ LET dt == now - calls[c].ts
                      fps == IF dt > 0 THEN 1000 \div dt ELSE 0
                  IN \/ fpsEMA' = fpsEMA
                     \/ fpsEMA = 0 /\ fpsEMA' = fps
                     \/ fpsEMA # 0 /\ fpsEMA' = (fpsEMA * 9 + fps) \div 10]_vars

\* a second sample has been folded into a seeded estimate
C27_SampleFolded ==
  /\ ev = "callOk"
  /\ fpsEMA > 0
  /\ \A dt \in 1 .. MaxTime : fpsEMA # 1000 \div dt

\* C28: the perf display is updated at most twice per second: when the perf
\* text is written with a reading, the previous such write lies more than
\* PERF_UPDATE_MS back, and the dispatch time of the call that writes lies
\* more than PERF_UPDATE_MS after lastPerfUpdate.
C28_PerfWritesSpaced ==
  [][(ev' = "callOk" /\ lastPerfUpdate' # lastPerfUpdate)
       => /\ perfText' = "fps" /\ perfWrites' = <<now>>
          /\ lastPerfUpdate' - lastPerfUpdate > PERF_UPDATE_MS
          /\ perfWrites # <<>> => now - perfWrites[1] > PERF_UPDATE_MS]_vars

\* C29: an init() that resolves has executed exactly one warm-up inference,
\* after a successful compile on the accelerator finally used (the last compile
\* attempted, whose model is the one set) and before it resolves; a session
\* whose compile failed, so that no model is set, has executed no warm-up.
C29_OneWarmupAfterCompile ==
  [][\A i \in SessIds :
       /\ (sess'[i].pc = "resolved" /\ sess[i].pc # "resolved")
            => /\ sess[i].pc \in {"compile", "fbCompile", "optAssets"}
               /\ sess'[i].warmups = 1
               /\ sess'[i].warmedUp
               /\ sess'[i].model = sess'[i].accelerator
               /\ sess'[i].compiles # <<>>
               /\ sess'[i].compiles[Len(sess'[i].compiles)] = sess'[i].accelerator
               /\ sess'[i].backendName = ToUpperCase(sess'[i].accelerator)
       /\ sess'[i].warmups <= 1
       /\ sess'[i].model = "null" => sess'[i].warmups = 0
       /\ sess'[i].warmups # sess[i].warmups
            => (sess'[i].pc = "none" \/ sess'[i].warmups = 0 \/ sess'[i].model # "null")]_vars

\* an init() resolved on WASM after a failed WebGPU compile, warmed up once
C29_WarmedUpAfterFallback ==
  \E i \in SessIds :
    /\ sess[i].pc = "resolved"
    /\ sess[i].requested = "webgpu" /\ sess[i].accelerator = "wasm"
    /\ sess[i].compiles = <<"webgpu", "wasm">>
    /\ sess[i].warmups = 1

\* C30: after any sequence of start, stop and restart events at most one loop
\* callback is pending at any time, and a callback that was pending when a
\* stop ran does nothing when it fires later: a tick that fires while another
\* callback is pending, or while running is false, dispatches nothing and
\* schedules nothing.
C30_SingleTickChain ==
  /\ [](Cardinality(pending) <= 1)
  /\ [][(ticks' = ticks + 1 /\ ~running) => (pending' \subseteq pending /\ calls' = calls)]_vars

\* C31: a click on the backend toggle flips the selected backend; it restarts
\* the session only if one is running (teardown now, the start after the
\* yield); when the controller is Idle it begins no start handler, so no
\* capture is acquired and no session is constructed or initialized.
C31_ToggleIdleOnlyFlips ==
  [][(backendSelect' # backendSelect /\ ev' \in {"toggleStart", "stop"})
       => /\ running => (~running' /\ restart'.pc = "yield")
          /\ Idle => /\ starts' = starts /\ nextStart' = nextStart
                     /\ restart' = restart
                     /\ UNCHANGED <<ctlVars, sess, status>>]_vars

\* C32: the completion handlers of a run() call dispatched against a previous
\* session leave the scheduler state of the new session alone: when such a
\* call settles while a later session is running, classifyInFlight,
\* lastClassifyTs, fpsEMA, lastPerfUpdate and the perf text stay as they are.
C32_StaleCompletionInert ==
  [][\A c \in CallIds :
       (/\ calls[c].sess # NULL /\ calls'[c].sess = NULL
        /\ running /\ runner # NULL /\ calls[c].sess # runner)
         => UNCHANGED <<classifyInFlight, lastClassifyTs, fpsEMA, lastPerfUpdate,
                        perfText>>]_vars

\* C33: in ensureLiteRtOnce the flag ok becomes true only once the single
\* load has settled successfully (fulfilled or benign, then the feature
\* detection); once the first loadLiteRt has rejected with another error, ok
\* stays false, the rejected promise stays in place, loadLiteRt is not invoked
\* again, and every ensureLiteRtOnce call awaiting or made after it rejects
\* with that error.
C33_FailedLoadNeverRetried ==
  [][/\ (g'.ok /\ ~g.ok) => (g.p = "detecting" /\ g'.p = "fulfilled" /\ loadCalls = 1)
     /\ g.ok => g'.ok
     /\ g.p = "rejected" => (g' = g /\ ~g.ok /\ loadCalls' = loadCalls /\ loadCalls = 1)
     /\ g.p = "rejected"
          => /\ ensureLiteRtOnce(g).loads = 0
             /\ ensureLiteRtOnce(g).g = g
             /\ \A i \in SessIds :
                  (sess[i].pc = "ensure" /\ sess'[i] # sess[i])
                    => (sess'[i].pc = "rejected" /\ sess'[i].err = "LiteRT load failed")]_vars

\* a second start made after the load had failed was rejected by it as well
C33_LaterCallRejected ==
  /\ g.p = "rejected" /\ loadCalls = 1
  /\ nextStart = 2
  /\ ~InFlight(1)
  /\ sess[2].pc = "rejected" /\ sess[2].err = "LiteRT load failed"

\* C34: liveness of the classification scheduler. In a session that stays
\* running, with frame callbacks that keep firing, a clock that advances and
\* run() promises that all settle, the in-flight flag is never left set, and
\* whenever no call is in flight a further dispatch follows, as long as the
\* clock still reaches CLASSIFY_INTERVAL_MS past the throttle reference.
C34_ClassificationLive ==
  /\ classifyInFlight ~> ~classifyInFlight
  /\ (running /\ runner # NULL /\ ~IsSegmenter /\ ~classifyInFlight
        /\ lastClassifyTs + CLASSIFY_INTERVAL_MS <= LastTime)
       ~> (ev = "dispatch" /\ classifyInFlight)

\* a classification call was dispatched after an earlier one had completed
C34_DispatchedAgain ==
  /\ running /\ runner # NULL /\ ~IsSegmenter
  /\ ev = "dispatch"
  /\ lastClassifyTs > 0
  /\ now >= lastClassifyTs + CLASSIFY_INTERVAL_MS

\* C35: while a session is Running, no step of the benchmark handler or of a
\* comparison handler changes the live session's state: runner, running, the
\* scheduler flags, the capture stream in video.srcObject and the process-wide
\* TF.js backend.
C35_AuxLeavesLiveSession ==
  [][(running /\ runner # NULL /\ aux' # aux)
       => UNCHANGED <<runner, running, schedVars, srcObject, tfBackend>>]_vars


====
